---- MODULE Spec2Model ----
(***************************************************************************)
(* Model of gs/scripts/converter.py: the splat-cloud converter             *)
(* (process_data), the skeleton converter (convert_441_skeleton), the      *)
(* base-model converter (convert_std_male_model), the multi-asset driver    *)
(* (main) and the single-record decomposer (decompose_covariance); and of  *)
(* the standalone scripts convert_441_skeleton.py,                         *)
(* convert_std_male_model.py and convert_gs_example.py.                    *)
(*                                                                         *)
(* Number representation.  The arithmetic of the converter is modelled     *)
(* exactly on integers:                                                    *)
(*   - opacities are in hundredths (0.1 is 10);                            *)
(*   - skinning weights are in units of 1e-8 (0.05 is 5000000), so the     *)
(*     epsilon 1e-8 of the renormalisation is 1; a renormalised weight is  *)
(*     the exact fraction [num, den];                                      *)
(*   - colours are in thousandths (1.0 is 1000);                           *)
(*   - a quaternion (x, y, z, w) is an integer 4-vector, normalised by the *)
(*     operations that read it, as scipy's Rotation.from_quat does;        *)
(*   - an n-dimensional array is [shape, data] with data the row-major     *)
(*     flattening, as numpy stores it;                                     *)
(*   - variances are in units of 1e-8 and scales in units of 1e-4, so the  *)
(*     floor 1e-8 is 1 and the fallback scale 0.01 is 100.                 *)
(***************************************************************************)
EXTENDS Integers, Sequences, FiniteSets, TLC

\* ------------------------------------------------------------------ bounds
MaxSplats == 2
MaxBones == 5
MaxFrames == 2
MaxAnimBones == 2
MaxRank == 3
MaxJoints == 2

\* ------------------------------------------------------- program constants
OPACITY_THRESHOLD == 10
EPS == 1
SCALE_FLOOR == 1
TOP_K == 4
F32 == 4
U16 == 2
ANIM_STRIDE == 64
JOINT_STRIDE == 12
PARENT_STRIDE == 4
FALLBACK_SCALE == 100

\* ----------------------------------------------------------------- helpers
None == [none |-> TRUE]
Some(x) == [some |-> x]
Empty == [q \in {} |-> 0]

RECURSIVE Prod(_)
Prod(s) == IF s = << >> THEN 1 ELSE Head(s) * Prod(Tail(s))

RECURSIVE SumSeq(_)
SumSeq(s) == IF s = << >> THEN 0 ELSE Head(s) + SumSeq(Tail(s))

RECURSIVE Concat(_)
Concat(ss) == IF ss = << >> THEN << >> ELSE Head(ss) \o Concat(Tail(ss))

Abs(x) == IF x < 0 THEN -x ELSE x
Min(a, b) == IF a <= b THEN a ELSE b
Max(a, b) == IF a >= b THEN a ELSE b

NdArray(shape, data) == [shape |-> shape, data |-> data]

ndim(a) == Len(a.shape)

\* a.reshape(shape): the same row-major data under another shape
reshape(a, shape) == NdArray(shape, a.data)

\* a[i] for a 2-d array, i counted from 1
Row(a, i) == SubSeq(a.data, (i - 1) * a.shape[2] + 1, i * a.shape[2])

\* len(a): the extent of the first axis
len(a) == a.shape[1]

\* a.astype(float32).tobytes(): 4 bytes per element
tobytes_f32(a) == F32 * Prod(a.shape)

\* ---------------------------------------------- coordinate conversion
cv_to_gl_only_y(coords) ==
    LET last == coords.shape[ndim(coords)]
    IN  IF ndim(coords) \in {1, 2, 3}
        THEN NdArray(coords.shape,
                 [k \in 1..Len(coords.data) |->
                     IF (k - 1) % last = 1 THEN -coords.data[k]
                     ELSE coords.data[k]])
        ELSE coords

cv_to_gl(coords) ==
    CASE ndim(coords) = 1 ->
           NdArray(coords.shape,
               [k \in 1..Len(coords.data) |->
                   IF k - 1 \in {1, 2} THEN -coords.data[k]
                   ELSE coords.data[k]])
      [] ndim(coords) = 2 ->
           NdArray(coords.shape,
               [k \in 1..Len(coords.data) |->
                   IF (k - 1) % coords.shape[2] \in {1, 2} THEN -coords.data[k]
                   ELSE coords.data[k]])
      [] ndim(coords) = 3 ->
           NdArray(coords.shape,
               [k \in 1..Len(coords.data) |->
                   IF (k - 1) % coords.shape[3] \in {1, 2} THEN -coords.data[k]
                   ELSE coords.data[k]])
      [] OTHER -> coords

cv_to_gl_quat(quats) ==
    CASE ndim(quats) = 1 ->
           IF Len(quats.data) = 4
           THEN NdArray(quats.shape,
                    [k \in 1..Len(quats.data) |->
                        IF k - 1 \in {1, 2} THEN -quats.data[k]
                        ELSE quats.data[k]])
           ELSE quats
      [] ndim(quats) = 2 ->
           NdArray(quats.shape,
               [k \in 1..Len(quats.data) |->
                   IF (k - 1) % quats.shape[2] \in {1, 2} THEN -quats.data[k]
                   ELSE quats.data[k]])
      [] ndim(quats) = 3 ->
           NdArray(quats.shape,
               [k \in 1..Len(quats.data) |->
                   IF (k - 1) % quats.shape[3] \in {1, 2} THEN -quats.data[k]
                   ELSE quats.data[k]])
      [] OTHER -> quats

\* ------------------------------------------------------------ the artifact
\* The values the bounded artifacts are built from.
OpacityVals == {5, 10, 50}
PosVals == << <<1, 2, 3>>, <<-2, -1, 4>>, <<0, 5, -3>> >>
CovVals == << <<4, 9, 10000>>, <<10000, 4, 9>>, <<9, 4, 10000>>, <<0, 0, 0>> >>
ColorVals == <<0, 500, 1000, 250>>
NormalVals == <<5000000, 70000000, 10000000, 5000000, 3000000, 7000000>>
QuatVals == << <<0, 0, 0, 1>>, <<1, 0, 0, 0>>, <<0, 1, 0, 1>>, <<1, 1, 1, 1>>,
               <<0, 0, 1, -1>>, <<1, -1, 0, 0>> >>
TransVals == << <<1, 2, 3>>, <<-4, 5, -6>>, <<7, 0, -8>>, <<0, -9, 1>>, <<2, 2, -2>> >>
Templates == {"normal", "tiny", "negative", "dominant_negative"}
MandatoryKeys == {"mu", "cov", "color", "opacity", "W"}

\* A covariance with a non-finite entry (NaN or inf).  NAN stands for the
\* non-finite float; arithmetic and comparisons with it give NAN and False.
NAN == -2000000000
NonFiniteCov == <<NAN, NAN, NAN>>
isfinite(d) == \A k \in 1..Len(d) : d[k] /= NAN
nan_like(n) == [k \in 1..n |-> NAN]

Cyc(vals, k) == vals[(k % Len(vals)) + 1]

\* row i of the N x B skinning-weight matrix (units of 1e-8)
WeightRow(tmpl, i, B) ==
    [j \in 1..B |->
        CASE tmpl = "normal"   -> Cyc(NormalVals, j - 1 + i)
          [] tmpl = "tiny"     -> j + i - 1
          [] tmpl = "negative" -> 0 - (j + i - 1)
          [] OTHER             -> IF j = 1 THEN -90000000
                                  ELSE (B + 2 - j) * 1000000 * i]

\* row i of the colour array: 3 channels in [0,1] or 4 channels in [0,255]
ColorRow(p, i) ==
    [c \in 1..(3 + p) |->
        IF p = 0 THEN Cyc(ColorVals, i + c) ELSE Cyc(ColorVals, i + c) * 255]

Zeros(shape) == NdArray(shape, [k \in 1..Prod(shape) |-> 0])

SplatArtifact(ops, p, tmpl, B) ==
    LET N == Len(ops)
    IN  [mu      |-> NdArray(<<N, 3>>, Concat([i \in 1..N |-> Cyc(PosVals, i + p)])),
         cov     |-> [i \in 1..N |-> Cyc(CovVals, i + p)],
         color   |-> [i \in 1..N |-> ColorRow(p, i)],
         opacity |-> ops,
         W       |-> NdArray(<<N, B>>, Concat([i \in 1..N |-> WeightRow(tmpl, i, B)]))]

SplatArtifacts ==
    {SplatArtifact(ops, p, tmpl, B) :
        ops \in UNION {[1..n -> OpacityVals] : n \in 0..MaxSplats},
        p \in {0, 1}, tmpl \in Templates, B \in 1..MaxBones}

PoseDict(F, Bn) ==
    [kind         |-> "dict",
     rotations    |-> NdArray(<<F, Bn, 4>>,
                        Concat([k \in 1..(F * Bn) |-> Cyc(QuatVals, k)])),
     translations |-> NdArray(<<F, Bn, 3>>,
                        Concat([k \in 1..(F * Bn) |-> Cyc(TransVals, k)]))]

FlatShapes ==
    {<<MaxFrames, b, 16>> : b \in 1..MaxAnimBones}
        \cup {<<MaxFrames, 3>>, <<MaxFrames>>}

\* the optional pose entry: absent, a {rotations, translations} pair under
\* 'poses', or an array under 'poses' or under 'body_pose'
PoseInputs ==
    {[kind |-> "none"]}
        \cup {PoseDict(F, Bn) : F \in 1..MaxFrames, Bn \in 1..MaxAnimBones}
        \cup {[kind |-> k, arr |-> Zeros(s)] : k \in {"poses", "body_pose"}, s \in FlatShapes}

JointInputs == {None, NdArray(<<2, 3>>, <<1, 2, 3, -4, 5, -6>>)}

\* the unpickled dictionary: the keys present and their values
Artifact(keys, a, poseIn, jointsIn) ==
    [keys |-> keys, mu |-> a.mu, cov |-> a.cov, color |-> a.color,
     opacity |-> a.opacity, W |-> a.W, poses |-> poseIn, joints |-> jointsIn]

OptionalKeys(poseIn, jointsIn) ==
    (IF poseIn.kind = "none" THEN {}
     ELSE IF poseIn.kind = "body_pose" THEN {"body_pose"} ELSE {"poses"})
        \cup (IF jointsIn = None THEN {} ELSE {"joints"})

\* a batch whose record `bad` has a non-finite covariance
NonFiniteArtifact(ops, bad) ==
    [SplatArtifact(ops, 0, "normal", TOP_K) EXCEPT !.cov[bad] = NonFiniteCov]

NonFiniteArtifacts ==
    {NonFiniteArtifact(ops, bad) :
        <<ops, bad>> \in {x \in ((UNION {[1..n -> OpacityVals] : n \in 1..MaxSplats})
                                     \X (1..MaxSplats)) : x[2] <= Len(x[1])}}

Artifacts ==
    {Artifact(MandatoryKeys \cup OptionalKeys(poseIn, jointsIn), a, poseIn, jointsIn) :
        a \in SplatArtifacts, poseIn \in PoseInputs, jointsIn \in JointInputs}
    \cup
    {Artifact(MandatoryKeys, a, [kind |-> "none"], None) : a \in NonFiniteArtifacts}
    \cup
    {Artifact(MandatoryKeys \ {k}, SplatArtifact(<<50>>, 0, "normal", 4),
              [kind |-> "none"], None) : k \in MandatoryKeys}

\* ------------------------------------------------------------------- state
VARIABLES
    pc,                  \* the statement about to run
    err,                 \* the exception that ended the run, "" if none
    data,                \* the unpickled dictionary
    means, covs, colors, opacities, weights, joints,
    poses, animation_num_bones,
    num_splats, scales, rot_mat, rotations,
    top_indices, top_weights,
    header,              \* the header dictionary being built
    files,               \* output path -> bytes written
    docs,                \* output path -> JSON document written
    dirs,                \* the output directories that exist
    caller,              \* "main", or "direct" for a converter called on its own
    exists,              \* the input files that exist
    skeleton_data,       \* the loaded 441-skeleton.pt
    std_male_model_data, \* the loaded std_male.model.pt
    bone_names, parents, \* convert_441_skeleton's locals
    sk_header,           \* convert_441_skeleton's header dictionary
    std_header,          \* convert_std_male_model's header["stdMaleModel"]
    std_arrays           \* convert_std_male_model's converted arrays, by key

pdvars == <<data, means, covs, colors, opacities, weights, joints,
            poses, animation_num_bones, num_splats, scales, rot_mat, rotations,
            top_indices, top_weights, header>>

env == <<caller, exists, skeleton_data, std_male_model_data>>

skvars == <<bone_names, parents, sk_header>>

stdvars == <<std_header, std_arrays>>

vars == <<pc, err, pdvars, files, docs, dirs, env, skvars, stdvars>>

\* what process_data leaves alone
rest == <<env, skvars, stdvars>>

GsDir == "gs_example/converted"
SkeletonDir == "441_skeleton/converted"
StdMaleDir == "std_male_model/converted"
Path(dir, name) == <<dir, name>>

\* open(path, 'wb') and the writes up to the close: the file holds n bytes
WriteFile(fs, path, n) ==
    [q \in DOMAIN fs \cup {path} |-> IF q = path THEN n ELSE fs[q]]

\* an exception that nothing catches ends the run
Raise(e) == pc' = "raised" /\ err' = e

\* a converter returns to the statement of main after its call
Return(next) == pc' = IF caller = "main" THEN next ELSE "done"

\* ------------------------------------------------ process_data: the arrays
\* the reading with the header file opened before the keys are looked up
ReadArrays_header_opened_first ==
    /\ pc = "pd_read"
    /\ docs' = WriteFile(docs, Path(GsDir, "pkl_header.json"), Empty)
    /\ IF ~(MandatoryKeys \subseteq data.keys)
       THEN /\ Raise("KeyError")
            /\ UNCHANGED <<means, covs, colors, opacities, weights, joints>>
       ELSE /\ means' = data.mu
            /\ covs' = data.cov
            /\ colors' = data.color
            /\ opacities' = data.opacity
            /\ weights' = data.W
            /\ joints' = IF "joints" \in data.keys THEN data.joints ELSE None
            /\ pc' = "pd_filter"
            /\ err' = err
    /\ UNCHANGED <<data, poses, animation_num_bones, num_splats, scales, rot_mat, rotations,
                   top_indices, top_weights, header, files, dirs, rest>>

\* data['mu'], data['cov'], data['color'], data['opacity'], data['W']: a
\* missing key raises KeyError
ReadArrays ==
    /\ pc = "pd_read"
    /\ IF ~(MandatoryKeys \subseteq data.keys)
       THEN /\ Raise("KeyError")
            /\ UNCHANGED <<means, covs, colors, opacities, weights, joints>>
       ELSE /\ means' = data.mu
            /\ covs' = data.cov
            /\ colors' = data.color
            /\ opacities' = data.opacity
            /\ weights' = data.W
            /\ joints' = IF "joints" \in data.keys THEN data.joints ELSE None
            /\ pc' = "pd_filter"
            /\ err' = err
    /\ UNCHANGED <<data, poses, animation_num_bones, num_splats, scales, rot_mat, rotations,
                   top_indices, top_weights, header, files, docs, dirs, rest>>

\* s[mask] for a sequence s and a boolean sequence mask of the same length
RECURSIVE BoolIndexFrom(_, _, _)
BoolIndexFrom(s, mask, i) ==
    IF i > Len(s) THEN << >>
    ELSE (IF mask[i] THEN <<s[i]>> ELSE << >>) \o BoolIndexFrom(s, mask, i + 1)

BoolIndex(s, mask) == BoolIndexFrom(s, mask, 1)

\* a[mask] for a 2-d array: the rows the mask selects
BoolIndex2d(a, mask) ==
    LET rows == BoolIndex([i \in 1..a.shape[1] |-> Row(a, i)], mask)
    IN  NdArray(<<Len(rows), a.shape[2]>>, Concat(rows))

opacity_mask_strict(ops) == [i \in 1..Len(ops) |-> ops[i] > OPACITY_THRESHOLD]

opacity_mask(ops) == [i \in 1..Len(ops) |-> ops[i] >= OPACITY_THRESHOLD]

FilterOpacity ==
    /\ pc = "pd_filter"
    /\ LET mask == opacity_mask(opacities)
       IN  /\ means' = BoolIndex2d(means, mask)
           /\ covs' = BoolIndex(covs, mask)
           /\ colors' = BoolIndex(colors, mask)
           /\ opacities' = BoolIndex(opacities, mask)
           /\ weights' = BoolIndex2d(weights, mask)
    /\ pc' = "pd_poses"
    /\ UNCHANGED <<err, data, joints, poses, animation_num_bones, num_splats, scales, rot_mat,
                   rotations, top_indices, top_weights, header, files, docs, dirs, rest>>

\* ------------------------------------------------- process_data: the poses
Norm2(q) == q[1] * q[1] + q[2] * q[2] + q[3] * q[3] + q[4] * q[4]

\* Rotation.from_quat(q).as_matrix(): the matrix of the normalised
\* quaternion (x, y, z, w), row-major
as_matrix(q) ==
    LET x == q[1]  y == q[2]  z == q[3]  w == q[4]  n == Norm2(q)
    IN  << (x*x - y*y - z*z + w*w) \div n, (2 * (x*y - z*w)) \div n, (2 * (x*z + y*w)) \div n,
           (2 * (x*y + z*w)) \div n, (y*y - x*x - z*z + w*w) \div n, (2 * (y*z - x*w)) \div n,
           (2 * (x*z - y*w)) \div n, (2 * (y*z + x*w)) \div n, (z*z - x*x - y*y + w*w) \div n >>

\* np.eye(4) with [:3, :3] = r and [:3, 3] = t, row-major
Homogeneous(r, t) ==
    [k \in 1..16 |->
        LET row == (k - 1) \div 4  col == (k - 1) % 4
        IN  IF row < 3 /\ col < 3 THEN r[3 * row + col + 1]
            ELSE IF row < 3 THEN t[row + 1]
            ELSE IF col = 3 THEN 1 ELSE 0]

\* m.transpose(): element (row, col) of the result is element (col, row) of m
Transpose4(m) ==
    [k \in 1..16 |-> m[4 * ((k - 1) % 4) + ((k - 1) \div 4) + 1]]

pack_animation_no_transpose(rots, trans) ==
    LET num_frames == rots.shape[1]
        num_bones == rots.shape[2]
        quats_flat == reshape(cv_to_gl_quat(rots), <<Len(rots.data) \div 4, 4>>)
        trans_flat == reshape(cv_to_gl(trans), <<Len(trans.data) \div 3, 3>>)
        matrices == [i \in 1..quats_flat.shape[1] |->
                        Homogeneous(as_matrix(Row(quats_flat, i)), Row(trans_flat, i))]
    IN  NdArray(<<num_frames, num_bones, 16>>, Concat(matrices))

pack_animation(rots, trans) ==
    LET num_frames == rots.shape[1]
        num_bones == rots.shape[2]
        quats_flat == reshape(cv_to_gl_quat(rots), <<Len(rots.data) \div 4, 4>>)
        trans_flat == reshape(cv_to_gl(trans), <<Len(trans.data) \div 3, 3>>)
        matrices == [i \in 1..quats_flat.shape[1] |->
                        Homogeneous(as_matrix(Row(quats_flat, i)), Row(trans_flat, i))]
        matrices_T == [i \in 1..Len(matrices) |-> Transpose4(matrices[i])]
    IN  NdArray(<<num_frames, num_bones, 16>>, Concat(matrices_T))

HandlePoses ==
    /\ pc = "pd_poses"
    /\ IF "poses" \in data.keys
       THEN IF data.poses.kind = "dict"
            THEN IF \E i \in 1..(Len(data.poses.rotations.data) \div 4) :
                        Norm2(Row(reshape(data.poses.rotations,
                                  <<Len(data.poses.rotations.data) \div 4, 4>>), i)) = 0
                 THEN /\ Raise("ValueError")
                      /\ UNCHANGED <<poses, animation_num_bones>>
                 ELSE /\ poses' = pack_animation(data.poses.rotations, data.poses.translations)
                      /\ animation_num_bones' = Some(data.poses.rotations.shape[2])
                      /\ pc' = "pd_convert"
                      /\ err' = err
            ELSE /\ poses' = data.poses.arr
                 /\ pc' = "pd_convert"
                 /\ UNCHANGED <<err, animation_num_bones>>
       ELSE IF "body_pose" \in data.keys
            THEN /\ poses' = data.poses.arr
                 /\ pc' = "pd_convert"
                 /\ UNCHANGED <<err, animation_num_bones>>
            ELSE /\ pc' = "pd_convert"
                 /\ UNCHANGED <<err, poses, animation_num_bones>>
    /\ UNCHANGED <<data, means, covs, colors, opacities, weights, joints, num_splats,
                   scales, rot_mat, rotations, top_indices, top_weights, header, files, docs, dirs, rest>>

\* ------------------------------------ process_data: coordinates and splats
ConvertCoords ==
    /\ pc = "pd_convert"
    /\ num_splats' = means.shape[1]
    /\ means' = cv_to_gl(means)
    /\ joints' = IF joints /= None THEN cv_to_gl(joints) ELSE joints
    /\ pc' = "pd_decompose"
    /\ UNCHANGED <<err, data, covs, colors, opacities, weights, poses, animation_num_bones,
                   scales, rot_mat, rotations, top_indices, top_weights, header, files, docs, dirs, rest>>

\* the orders in which the indices of S sort row ascending; equal values
\* may come in any order
RECURSIVE SortedOrders(_, _)
SortedOrders(S, row) ==
    IF S = {} THEN {<< >>}
    ELSE LET lo == {i \in S : \A j \in S : row[i] <= row[j]}
         IN  UNION {{<<i>> \o t : t \in SortedOrders(S \ {i}, row)} : i \in lo}

\* the ascending order that keeps equal values in index order
RECURSIVE StableOrder(_, _)
StableOrder(S, row) ==
    IF S = {} THEN << >>
    ELSE LET i == CHOOSE i \in S : \A j \in S : row[i] < row[j] \/ (row[i] = row[j] /\ i <= j)
         IN  <<i>> \o StableOrder(S \ {i}, row)

ISqrt(n) == CHOOSE r \in 0..n : r * r <= n /\ n < (r + 1) * (r + 1)

\* The covariances of the bounded artifacts are diagonal, diag(d).
\* np.linalg.eigh of diag(d): the eigenvalues in
\* ascending order and the matrix whose column k is the unit vector of the
\* k-th eigenvalue (row-major)
eigh(d) ==
    LET order == StableOrder(1..3, d)
    IN  [w |-> [k \in 1..3 |-> d[order[k]]],
         v |-> [k \in 1..9 |->
                  IF ((k - 1) \div 3) + 1 = order[((k - 1) % 3) + 1] THEN 1 ELSE 0]]

det(m) ==
      m[1] * (m[5] * m[9] - m[6] * m[8])
    - m[2] * (m[4] * m[9] - m[6] * m[7])
    + m[3] * (m[4] * m[8] - m[5] * m[7])

\* v[:, 0] *= -1
NegateFirstColumn(m) == [k \in 1..9 |-> IF (k - 1) % 3 = 0 THEN -m[k] ELSE m[k]]

\* Rotation.from_matrix(m).as_quat(): the quaternion (x, y, z, w) of a
\* rotation matrix, before normalisation
from_matrix(m) ==
    LET M(r, c) == m[3 * r + c + 1]
        trace == M(0, 0) + M(1, 1) + M(2, 2)
        decision == <<M(0, 0), M(1, 1), M(2, 2), trace>>
        choice == CHOOSE c \in 1..4 :
                      /\ \A e \in 1..4 : decision[c] >= decision[e]
                      /\ \A e \in 1..(c - 1) : decision[e] < decision[c]
        i == choice - 1
        j == (i + 1) % 3
        k == (j + 1) % 3
    IN  IF choice = 4
        THEN <<M(2, 1) - M(1, 2), M(0, 2) - M(2, 0), M(1, 0) - M(0, 1), 1 + trace>>
        ELSE [e \in 1..4 |->
                 IF e - 1 = i THEN 1 - trace + 2 * M(i, i)
                 ELSE IF e - 1 = j THEN M(j, i) + M(i, j)
                 ELSE IF e - 1 = k THEN M(k, i) + M(i, k)
                 ELSE M(k, j) - M(j, k)]

\* the sign of each eigenvector is the solver's choice: column k of v times
\* s[k].  Two choices are modelled, one of each determinant.
EigenSigns == {<<1, 1, 1>>, <<-1, 1, 1>>}
eigh_signed(d, s) ==
    LET e == eigh(d)
    IN  [w |-> e.w, v |-> [k \in 1..9 |-> s[((k - 1) % 3) + 1] * e.v[k]]]

\* np.sqrt(np.maximum(w, 1e-8))
scale_of(w) == [k \in 1..3 |-> ISqrt(Max(w[k], SCALE_FLOOR))]

\* np.linalg.eigh(covs) is one call for the whole batch, with nothing around
\* it that catches.  On a batch with a non-finite record the solver either
\* does not converge, and eigh raises LinAlgError, or it returns NaN for
\* that record, which np.maximum, np.sqrt, the comparison dets < 0 and
\* from_matrix carry through to the scale and the quaternion.
Decompose ==
    /\ pc = "pd_decompose"
    /\ \/ /\ \E i \in 1..Len(covs) : ~isfinite(covs[i])
          /\ Raise("LinAlgError")
          /\ UNCHANGED <<scales, rot_mat, rotations>>
       \/ \E s \in EigenSigns :
             LET n == Len(covs)
                 eig == [i \in 1..n |->
                           IF isfinite(covs[i]) THEN eigh_signed(covs[i], s)
                           ELSE [w |-> nan_like(3), v |-> nan_like(9)]]
                 v == [i \in 1..n |->
                          IF isfinite(eig[i].v) /\ det(eig[i].v) < 0
                          THEN NegateFirstColumn(eig[i].v) ELSE eig[i].v]
                 quats == [i \in 1..n |->
                              IF isfinite(v[i])
                              THEN Row(cv_to_gl_quat(NdArray(<<1, 4>>, from_matrix(v[i]))), 1)
                              ELSE nan_like(4)]
             IN  /\ scales' = [i \in 1..n |->
                                   IF isfinite(eig[i].w) THEN scale_of(eig[i].w)
                                   ELSE nan_like(3)]
                 /\ rot_mat' = v
                 /\ rotations' = NdArray(<<n, 4>>, Concat(quats))
                 /\ pc' = "pd_colors"
                 /\ err' = err
    /\ UNCHANGED <<data, means, covs, colors, opacities, weights, joints, poses,
                   animation_num_bones, num_splats, top_indices, top_weights, header,
                   files, docs, dirs, rest>>

\* (c * 255).astype(uint8) for c in [0, 1], c.astype(uint8) otherwise
to_uint8(c, scaled) ==
    IF scaled THEN ((c * 255) \div 1000) % 256 ELSE (c \div 1000) % 256

\* colors.max() of an empty array raises ValueError; an empty batch gets no
\* further than this statement
NormalizeColors ==
    /\ pc = "pd_colors"
    /\ IF Len(colors) = 0
       THEN /\ Raise("ValueError")
            /\ UNCHANGED colors
       ELSE LET scaled == \A i \in 1..Len(colors) : \A c \in 1..Len(colors[i]) :
                              colors[i][c] <= 1000
                bytes == [i \in 1..Len(colors) |->
                            [c \in 1..Len(colors[i]) |-> to_uint8(colors[i][c], scaled)]]
            IN  /\ colors' = IF Len(bytes[1]) = 3
                             THEN [i \in 1..Len(bytes) |-> Append(bytes[i], 255)]
                             ELSE bytes
                /\ pc' = "pd_weights"
                /\ err' = err
    /\ UNCHANGED <<data, means, covs, opacities, weights, joints, poses,
                   animation_num_bones, num_splats, scales, rot_mat, rotations, top_indices,
                   top_weights, header, files, docs, dirs, rest>>

\* ------------------------------------------- process_data: skinning weights
\* s[-n:]
LastN(s, n) == IF Len(s) <= n THEN s ELSE SubSeq(s, Len(s) - n + 1, Len(s))

RECURSIVE Product(_)
Product(sets) ==
    IF sets = << >> THEN {<< >>}
    ELSE {<<h>> \o t : h \in Head(sets), t \in Product(Tail(sets))}

\* np.argsort(w, axis=1)[:, -4:], bone indices counted from 0; the default
\* sort is not stable, so every ascending order of a row is an outcome
argsort_top_first(w) ==
    Product([i \in 1..w.shape[1] |->
        {[k \in 1..Min(Len(o), TOP_K) |-> o[k] - 1] :
            o \in SortedOrders(1..w.shape[2], Row(w, i))}])

argsort_top(w) ==
    Product([i \in 1..w.shape[1] |->
        {[k \in 1..Len(LastN(o, TOP_K)) |-> LastN(o, TOP_K)[k] - 1] :
            o \in SortedOrders(1..w.shape[2], Row(w, i))}])

\* np.take_along_axis(w, idx, axis=1)
take_along_axis(w, idx) ==
    [i \in 1..Len(idx) |-> [k \in 1..Len(idx[i]) |-> Row(w, i)[idx[i][k] + 1]]]

\* the renormalisation with the sum taken over the whole array
renormalize_global_sum(top) ==
    [i \in 1..Len(top) |->
        [k \in 1..Len(top[i]) |->
            [num |-> top[i][k],
             den |-> SumSeq([r \in 1..Len(top) |-> SumSeq(top[r])]) + EPS]]]

\* top / (top.sum(axis=1, keepdims=True) + 1e-8), as exact fractions
renormalize(top) ==
    [i \in 1..Len(top) |->
        [k \in 1..Len(top[i]) |-> [num |-> top[i][k], den |-> SumSeq(top[i]) + EPS]]]

ReduceWeights ==
    /\ pc = "pd_weights"
    /\ \E idx \in argsort_top(weights) :
          /\ top_indices' = idx
          /\ top_weights' = renormalize(take_along_axis(weights, idx))
    /\ pc' = "pd_header"
    /\ UNCHANGED <<err, data, means, covs, colors, opacities, weights, joints, poses,
                   animation_num_bones, num_splats, scales, rot_mat, rotations, header, files, docs, dirs, rest>>

\* ------------------------------------------------- process_data: the output
\* d[key] = value
SetItem(d, key, value) ==
    [q \in DOMAIN d \cup {key} |-> IF q = key THEN value ELSE d[q]]

\* a.min(axis=0).tolist() and a.max(axis=0).tolist() of a non-empty 2-d array
RECURSIVE ColFold(_, _, _, _)
ColFold(a, c, i, lower) ==
    IF i = a.shape[1] THEN Row(a, i)[c]
    ELSE IF lower THEN Min(Row(a, i)[c], ColFold(a, c, i + 1, lower))
         ELSE Max(Row(a, i)[c], ColFold(a, c, i + 1, lower))

min_axis0(a) == [c \in 1..a.shape[2] |-> ColFold(a, c, 1, TRUE)]
max_axis0(a) == [c \in 1..a.shape[2] |-> ColFold(a, c, 1, FALSE)]

build_header(n, w, m) ==
    [numSplats |-> n,
     numBones  |-> w.shape[2],
     bounds    |-> [min |-> min_axis0(m), max |-> max_axis0(m)]]

BuildHeader ==
    /\ pc = "pd_header"
    /\ dirs' = dirs \cup {GsDir}
    /\ IF means.shape[1] = 0
       THEN /\ Raise("ValueError")
            /\ UNCHANGED header
       ELSE /\ header' = build_header(num_splats, weights, means)
            /\ pc' = "pd_splats"
            /\ err' = err
    /\ UNCHANGED <<data, means, covs, colors, opacities, weights, joints, poses,
                   animation_num_bones, num_splats, scales, rot_mat, rotations, top_indices,
                   top_weights, files, docs, rest>>

\* the bytes of record i of splats.bin
splat_record_bytes(i) ==
      F32 * Len(Row(means, i)) + F32 * Len(scales[i]) + F32 * Len(Row(rotations, i))
    + Len(colors[i]) + F32

WriteSplats ==
    /\ pc = "pd_splats"
    /\ files' = WriteFile(files, Path(GsDir, "splats.bin"),
                     SumSeq([i \in 1..num_splats |-> splat_record_bytes(i)]))
    /\ pc' = "pd_wfile"
    /\ UNCHANGED <<err, pdvars, docs, dirs, rest>>

\* the bytes of record i of weights.bin
weight_record_bytes(i) == U16 * Len(top_indices[i]) + F32 * Len(top_weights[i])

WriteWeights ==
    /\ pc = "pd_wfile"
    /\ files' = WriteFile(files, Path(GsDir, "weights.bin"),
                     SumSeq([i \in 1..num_splats |-> weight_record_bytes(i)]))
    /\ pc' = "pd_animation"
    /\ UNCHANGED <<err, pdvars, docs, dirs, rest>>

animation_entry(p, anb) ==
    [file      |-> "animation.bin",
     format    |-> "float32",
     numFrames |-> p.shape[1],
     numBones  |-> IF anb /= None THEN anb
                   ELSE IF Len(p.shape) > 1 THEN Some(p.shape[2]) ELSE None,
     shape     |-> p.shape,
     stride    |-> ANIM_STRIDE]

WriteAnimation ==
    /\ pc = "pd_animation"
    /\ IF poses /= None
       THEN /\ files' = WriteFile(files, Path(GsDir, "animation.bin"), tobytes_f32(poses))
            /\ header' = SetItem(header, "animation",
                              animation_entry(poses, animation_num_bones))
       ELSE UNCHANGED <<files, header>>
    /\ pc' = "pd_joints"
    /\ UNCHANGED <<err, data, means, covs, colors, opacities, weights, joints, poses,
                   animation_num_bones, num_splats, scales, rot_mat, rotations, top_indices,
                   top_weights, docs, dirs, rest>>

joints_entry_wrong_file(j) ==
    [count |-> len(j), file |-> "animation.bin", format |-> "float32",
     stride |-> JOINT_STRIDE]

joints_entry(j) ==
    [count |-> len(j), file |-> "joints.bin", format |-> "float32", stride |-> JOINT_STRIDE]

WriteJoints ==
    /\ pc = "pd_joints"
    /\ IF joints /= None
       THEN /\ files' = WriteFile(files, Path(GsDir, "joints.bin"), tobytes_f32(joints))
            /\ header' = SetItem(header, "joints", joints_entry(joints))
       ELSE UNCHANGED <<files, header>>
    /\ pc' = "pd_json"
    /\ UNCHANGED <<err, data, means, covs, colors, opacities, weights, joints, poses,
                   animation_num_bones, num_splats, scales, rot_mat, rotations, top_indices,
                   top_weights, docs, dirs, rest>>

WriteHeader ==
    /\ pc = "pd_json"
    /\ docs' = WriteFile(docs, Path(GsDir, "pkl_header.json"), header)
    /\ Return("sk_start")
    /\ UNCHANGED <<err, pdvars, files, dirs, rest>>

\* ---------------------------------------------------- convert_441_skeleton
NameKeys == {"joint_names", "bone_names", "names"}
ParentKeys == {"parents", "parent"}

\* a loaded skeleton: a dictionary with some of the keys, or an object with
\* some of the attributes joint_names and parents, over n joints
SkeletonInputs ==
    {[is_dict |-> TRUE, keys |-> K, n |-> n] :
        K \in SUBSET (NameKeys \cup ParentKeys), n \in 1..MaxJoints}
    \cup
    {[is_dict |-> FALSE, keys |-> K, n |-> n] :
        K \in SUBSET {"joint_names", "parents"}, n \in 1..MaxJoints}

\* the parent index of each joint, -1 for the root
ParentArray(n) == NdArray(<<n>>, [i \in 1..n |-> i - 2])

BoneNameList(n) == [i \in 1..n |-> "bone"]

SkeletonExists ==
    /\ pc = "sk_start"
    /\ IF "skeleton" \notin exists
       THEN Return("std_start")
       ELSE pc' = "sk_load"
    /\ UNCHANGED <<err, pdvars, files, docs, dirs, env, skvars, stdvars>>

\* d.get(k1, d.get(k2, ...)): the first key present decides
FirstKey(d, order) ==
    IF \E i \in 1..Len(order) : order[i] \in d.keys
    THEN Some(order[CHOOSE i \in 1..Len(order) :
                 order[i] \in d.keys /\ \A j \in 1..(i - 1) : order[j] \notin d.keys])
    ELSE None

skeleton_parents(d) ==
    IF d.is_dict
    THEN IF FirstKey(d, <<"parents", "parent">>) /= None THEN ParentArray(d.n) ELSE None
    ELSE IF "parents" \in d.keys THEN ParentArray(d.n) ELSE None

skeleton_bone_names(d) ==
    IF d.is_dict
    THEN IF FirstKey(d, <<"joint_names", "bone_names", "names">>) /= None
         THEN Some(BoneNameList(d.n)) ELSE None
    ELSE IF "joint_names" \in d.keys THEN Some(BoneNameList(d.n)) ELSE None

SkeletonLoad ==
    /\ pc = "sk_load"
    /\ dirs' = dirs \cup {SkeletonDir}
    /\ bone_names' = skeleton_bone_names(skeleton_data)
    /\ parents' = skeleton_parents(skeleton_data)
    /\ sk_header' = IF skeleton_bone_names(skeleton_data) /= None
                    THEN [boneNames |-> skeleton_bone_names(skeleton_data).some]
                    ELSE Empty
    /\ pc' = "sk_parents"
    /\ UNCHANGED <<err, pdvars, files, docs, env, stdvars>>

parents_entry(a) ==
    [file |-> "parents.bin", format |-> "int32", count |-> a.shape[1],
     stride |-> PARENT_STRIDE]

SkeletonParents ==
    /\ pc = "sk_parents"
    /\ IF parents /= None
       THEN /\ files' = WriteFile(files, Path(SkeletonDir, "parents.bin"),
                             F32 * Prod(parents.shape))
            /\ sk_header' = SetItem(sk_header, "parents", parents_entry(parents))
       ELSE UNCHANGED <<files, sk_header>>
    /\ pc' = "sk_json"
    /\ UNCHANGED <<err, pdvars, docs, dirs, env, bone_names, parents, stdvars>>

SkeletonWriteHeader ==
    /\ pc = "sk_json"
    /\ docs' = WriteFile(docs, Path(SkeletonDir, "skeleton_header.json"), sk_header)
    /\ Return("std_start")
    /\ UNCHANGED <<err, pdvars, files, dirs, env, skvars, stdvars>>

\* -------------------------------------------------- convert_std_male_model
VecKeys == {"rest_translations", "comp_translations"}
QuatKeys == {"rest_rotations", "comp_rotations"}
JointKeys == VecKeys \cup QuatKeys \cup {"parents"}

\* an array of k-vectors of the given rank, every component non-zero
VecArray(rank, k) ==
    LET shape == [a \in 1..rank |-> IF a = rank THEN k ELSE 2]
    IN  NdArray(shape, [i \in 1..Prod(shape) |-> IF i % 3 = 0 THEN -i ELSE i])

\* a loaded base model: the keys of its 'joints' dictionary, whether it has
\* 'verts', and the rank of its arrays
StdMaleInputs ==
    {[is_dict |-> TRUE, has_joints |-> TRUE, jkeys |-> K, has_verts |-> hv, rank |-> r] :
        K \in {JointKeys, {}} \cup {{k} : k \in JointKeys},
        hv \in BOOLEAN, r \in 1..MaxRank}
    \cup
    {[is_dict |-> d, has_joints |-> FALSE, jkeys |-> {}, has_verts |-> d, rank |-> 2] :
        d \in BOOLEAN}

\* joints_data[key] or std_male_model_data['verts'] as loaded
StdSource(d, key) ==
    IF key \in QuatKeys THEN VecArray(d.rank, 4)
    ELSE IF key = "parents" THEN ParentArray(MaxJoints)
    ELSE VecArray(d.rank, 3)

StdMaleExists ==
    /\ pc = "std_start"
    /\ pc' = IF "std" \notin exists THEN "done" ELSE "std_load"
    /\ UNCHANGED <<err, pdvars, files, docs, dirs, env, skvars, stdvars>>

StdMaleLoad ==
    /\ pc = "std_load"
    /\ dirs' = dirs \cup {StdMaleDir}
    /\ std_header' = Empty
    /\ pc' = "std_rest_translations"
    /\ UNCHANGED <<err, pdvars, files, docs, env, skvars, std_arrays>>

std_entry(file, a, stride) ==
    [file |-> file, format |-> "float32", shape |-> a.shape, count |-> a.shape[1],
     stride |-> stride]

\* one `if key in joints_data` block: convert, write the stream, describe it
StdBlock(here, next, present, key, entry, file, converted, stride) ==
    /\ pc = here
    /\ IF present
       THEN /\ std_arrays' = SetItem(std_arrays, key, converted)
            /\ files' = WriteFile(files, Path(StdMaleDir, file), F32 * Prod(converted.shape))
            /\ std_header' = SetItem(std_header, entry, std_entry(file, converted, stride))
       ELSE UNCHANGED <<files, std_header, std_arrays>>
    /\ pc' = next
    /\ UNCHANGED <<err, pdvars, docs, dirs, env, skvars>>

InJoints(key) ==
    /\ std_male_model_data.is_dict
    /\ std_male_model_data.has_joints
    /\ key \in std_male_model_data.jkeys

StdRestTranslations ==
    StdBlock("std_rest_translations", "std_rest_rotations",
             InJoints("rest_translations"), "rest_translations", "restTranslations",
             "std_male_rest_translations.bin",
             cv_to_gl(StdSource(std_male_model_data, "rest_translations")), 12)

StdRestRotations ==
    StdBlock("std_rest_rotations", "std_parents",
             InJoints("rest_rotations"), "rest_rotations", "restRotations",
             "std_male_rest_rotations.bin",
             cv_to_gl_quat(StdSource(std_male_model_data, "rest_rotations")), 16)

StdParents ==
    /\ pc = "std_parents"
    /\ IF InJoints("parents")
       THEN /\ files' = WriteFile(files, Path(StdMaleDir, "std_male_parents.bin"),
                             F32 * Prod(StdSource(std_male_model_data, "parents").shape))
            /\ std_header' = SetItem(std_header, "parents",
                   [file |-> "std_male_parents.bin", format |-> "int32",
                    count |-> StdSource(std_male_model_data, "parents").shape[1],
                    stride |-> PARENT_STRIDE])
       ELSE UNCHANGED <<files, std_header>>
    /\ pc' = "std_comp_translations"
    /\ UNCHANGED <<err, pdvars, docs, dirs, env, skvars, std_arrays>>

StdCompTranslations ==
    StdBlock("std_comp_translations", "std_comp_rotations",
             InJoints("comp_translations"), "comp_translations", "compTranslations",
             "std_male_comp_translations.bin",
             cv_to_gl(StdSource(std_male_model_data, "comp_translations")), 12)

StdCompRotations ==
    StdBlock("std_comp_rotations", "std_verts",
             InJoints("comp_rotations"), "comp_rotations", "compRotations",
             "std_male_comp_rotations.bin",
             cv_to_gl_quat(StdSource(std_male_model_data, "comp_rotations")), 16)

StdVerts ==
    StdBlock("std_verts", "std_json",
             std_male_model_data.is_dict /\ std_male_model_data.has_verts,
             "verts", "verts", "std_male_verts.bin",
             cv_to_gl(StdSource(std_male_model_data, "verts")), 12)

StdWriteHeader ==
    /\ pc = "std_json"
    /\ docs' = WriteFile(docs, Path(StdMaleDir, "std_male_header.json"),
                    [stdMaleModel |-> std_header])
    /\ pc' = "done"
    /\ UNCHANGED <<err, pdvars, files, dirs, env, skvars, stdvars>>

\* -------------------------------------------------------------------- main
\* clear_converted_folder(path): every entry of an existing folder is removed
clear_converted_folder(fs, dir) ==
    IF dir \in dirs THEN [q \in {r \in DOMAIN fs : r[1] /= dir} |-> fs[q]] ELSE fs

ClearFolder(here, next, dir) ==
    /\ pc = here
    /\ files' = clear_converted_folder(files, dir)
    /\ docs' = clear_converted_folder(docs, dir)
    /\ pc' = next
    /\ UNCHANGED <<err, pdvars, dirs, env, skvars, stdvars>>

ClearGs == ClearFolder("main_clear_gs", "main_clear_skeleton", GsDir)
ClearSkeleton == ClearFolder("main_clear_skeleton", "main_clear_std", SkeletonDir)
ClearStdMale == ClearFolder("main_clear_std", "main_gs", StdMaleDir)

MainGsExample ==
    /\ pc = "main_gs"
    /\ pc' = IF "gs" \in exists THEN "pd_load" ELSE "sk_start"
    /\ UNCHANGED <<err, pdvars, files, docs, dirs, env, skvars, stdvars>>

\* process_data: open(input_path, 'rb') and pickle.load
LoadPickle ==
    /\ pc = "pd_load"
    /\ pc' = "pd_detect"
    /\ UNCHANGED <<err, pdvars, files, docs, dirs, env, skvars, stdvars>>

\* process_data: os.path.join(input_dir, 'std_male.model.pt').  The only
\* assignment of input_dir is inside the nested function to_np, after its
\* return, so the name is unbound here and the statement raises NameError.
DetectStdMale ==
    /\ pc = "pd_detect"
    /\ Raise("NameError")
    /\ UNCHANGED <<pdvars, files, docs, dirs, env, skvars, stdvars>>

\* the artifacts of a whole run
MainArtifacts ==
    {Artifact(MandatoryKeys \cup OptionalKeys(poseIn, jointsIn),
              SplatArtifact(<<5, 50>>, 0, "normal", 4), poseIn, jointsIn) :
        poseIn \in {[kind |-> "none"], PoseDict(1, 1)}, jointsIn \in JointInputs}
    \cup
    {Artifact(MandatoryKeys \ {k}, SplatArtifact(<<50>>, 0, "normal", 4),
              [kind |-> "none"], None) : k \in MandatoryKeys}

MainSkeletonInputs ==
    {d \in SkeletonInputs : d.n = MaxJoints /\ d.keys \subseteq {"joint_names", "parents", "parent"}}

StaleDirs == {{}, {GsDir}, {SkeletonDir, StdMaleDir}, {GsDir, SkeletonDir, StdMaleDir}}

Init ==
    /\ pc = "main_clear_gs"
    /\ err = ""
    /\ caller = "main"
    /\ exists \in SUBSET {"gs", "skeleton", "std"}
    /\ IF "gs" \in exists THEN data \in MainArtifacts ELSE data = None
    /\ IF "skeleton" \in exists THEN skeleton_data \in MainSkeletonInputs
       ELSE skeleton_data = None
    /\ IF "std" \in exists THEN std_male_model_data \in StdMaleInputs
       ELSE std_male_model_data = None
    /\ dirs \in StaleDirs
    /\ files = [q \in {Path(d, "stale.bin") : d \in dirs} |-> 1]
    /\ docs = [q \in {Path(d, "stale.json") : d \in dirs} |-> Empty]
    /\ means = None /\ covs = None /\ colors = None /\ opacities = None
    /\ weights = None /\ joints = None /\ poses = None
    /\ animation_num_bones = None /\ num_splats = 0
    /\ scales = None /\ rot_mat = None /\ rotations = None
    /\ top_indices = None /\ top_weights = None
    /\ header = None
    /\ bone_names = None /\ parents = None
    /\ sk_header = None /\ std_header = None /\ std_arrays = Empty

Next ==
    \/ ClearGs
    \/ ClearSkeleton
    \/ ClearStdMale
    \/ MainGsExample
    \/ LoadPickle
    \/ DetectStdMale
    \/ SkeletonExists
    \/ SkeletonLoad
    \/ SkeletonParents
    \/ SkeletonWriteHeader
    \/ StdMaleExists
    \/ StdMaleLoad
    \/ StdRestTranslations
    \/ StdRestRotations
    \/ StdParents
    \/ StdCompTranslations
    \/ StdCompRotations
    \/ StdVerts
    \/ StdWriteHeader

Spec == Init /\ [][Next]_vars

\* ------------------------------------------------------ the stage pipeline
\* The converters run stage by stage on the loaded data: process_data from
\* the reading of its arrays (line 118) on, convert_441_skeleton from its
\* call on.  Under Spec a call of process_data ends at DetectStdMale, so the
\* stages of lines 118-330 are checked here as functions of the artifact.
PipelineInit ==
    /\ \/ /\ pc = "pd_read"
          /\ data \in Artifacts
          /\ exists = {"gs"}
          /\ skeleton_data = None
       \/ /\ pc = "sk_start"
          /\ data = None
          /\ \/ exists = {} /\ skeleton_data = None
             \/ exists = {"skeleton"} /\ skeleton_data \in SkeletonInputs
    /\ err = ""
    /\ means = None /\ covs = None /\ colors = None /\ opacities = None
    /\ weights = None /\ joints = None /\ poses = None
    /\ animation_num_bones = None /\ num_splats = 0
    /\ scales = None /\ rot_mat = None /\ rotations = None
    /\ top_indices = None /\ top_weights = None
    /\ header = None
    /\ files = Empty
    /\ docs = Empty
    /\ dirs = {}
    /\ caller = "direct"
    /\ std_male_model_data = None
    /\ bone_names = None /\ parents = None
    /\ sk_header = None /\ std_header = None /\ std_arrays = Empty

PipelineNext ==
    \/ ReadArrays
    \/ FilterOpacity
    \/ HandlePoses
    \/ ConvertCoords
    \/ Decompose
    \/ NormalizeColors
    \/ ReduceWeights
    \/ BuildHeader
    \/ WriteSplats
    \/ WriteWeights
    \/ WriteAnimation
    \/ WriteJoints
    \/ WriteHeader
    \/ SkeletonExists
    \/ SkeletonLoad
    \/ SkeletonParents
    \/ SkeletonWriteHeader

PipelineSpec == PipelineInit /\ [][PipelineNext]_vars

\* --------------------------------------------------- the standalone scripts
\* convert_441_skeleton.py, convert_std_male_model.py and convert_gs_example.py
\* each convert one asset; `caller` names the script that runs.
Scripts == {"convert_441_skeleton.py", "convert_std_male_model.py", "convert_gs_example.py"}

\* convert_441_skeleton.py main: a missing input raises, the output folder is
\* made and what it holds is left in place
ScriptSkeletonStart ==
    /\ pc = "s441_start"
    /\ IF "skeleton" \notin exists
       THEN Raise("FileNotFoundError") /\ UNCHANGED dirs
       ELSE pc' = "s441_load" /\ err' = err /\ dirs' = dirs \cup {SkeletonDir}
    /\ UNCHANGED <<pdvars, files, docs, env, skvars, stdvars>>

ScriptSkeletonLoad ==
    /\ pc = "s441_load"
    /\ bone_names' = skeleton_bone_names(skeleton_data)
    /\ parents' = skeleton_parents(skeleton_data)
    /\ sk_header' = IF skeleton_bone_names(skeleton_data) /= None
                    THEN [boneNames |-> skeleton_bone_names(skeleton_data).some]
                    ELSE Empty
    /\ pc' = "s441_parents"
    /\ UNCHANGED <<err, pdvars, files, docs, dirs, env, stdvars>>

ScriptSkeletonParents ==
    /\ pc = "s441_parents"
    /\ IF parents /= None
       THEN /\ files' = WriteFile(files, Path(SkeletonDir, "parents.bin"),
                             F32 * Prod(parents.shape))
            /\ sk_header' = SetItem(sk_header, "parents", parents_entry(parents))
       ELSE UNCHANGED <<files, sk_header>>
    /\ pc' = "s441_json"
    /\ UNCHANGED <<err, pdvars, docs, dirs, env, bone_names, parents, stdvars>>

ScriptSkeletonWriteHeader ==
    /\ pc = "s441_json"
    /\ docs' = WriteFile(docs, Path(SkeletonDir, "header.json"), sk_header)
    /\ pc' = "done"
    /\ UNCHANGED <<err, pdvars, files, dirs, env, skvars, stdvars>>

\* convert_std_male_model.py main
ScriptStdMaleStart ==
    /\ pc = "sstd_start"
    /\ IF "std" \notin exists
       THEN Raise("FileNotFoundError") /\ UNCHANGED dirs
       ELSE pc' = "sstd_load" /\ err' = err /\ dirs' = dirs \cup {StdMaleDir}
    /\ UNCHANGED <<pdvars, files, docs, env, skvars, stdvars>>

ScriptStdMaleLoad ==
    /\ pc = "sstd_load"
    /\ std_header' = Empty
    /\ pc' = "sstd_streams"
    /\ UNCHANGED <<err, pdvars, files, docs, dirs, env, skvars, std_arrays>>

\* the `if key in ...` blocks of the script, in their order
ScriptStdBlocks ==
    <<[key |-> "rest_translations", entry |-> "restTranslations",
       file |-> "std_male_rest_translations.bin"],
      [key |-> "rest_rotations", entry |-> "restRotations",
       file |-> "std_male_rest_rotations.bin"],
      [key |-> "parents", entry |-> "parents", file |-> "std_male_parents.bin"],
      [key |-> "comp_translations", entry |-> "compTranslations",
       file |-> "std_male_comp_translations.bin"],
      [key |-> "comp_rotations", entry |-> "compRotations",
       file |-> "std_male_comp_rotations.bin"],
      [key |-> "verts", entry |-> "verts", file |-> "std_male_verts.bin"]>>

script_std_present(d, key) ==
    IF key = "verts" THEN d.is_dict /\ d.has_verts
    ELSE d.is_dict /\ d.has_joints /\ key \in d.jkeys

script_std_converted(d, key) ==
    IF key \in QuatKeys THEN cv_to_gl_quat(StdSource(d, key))
    ELSE IF key = "parents" THEN StdSource(d, key)
    ELSE cv_to_gl(StdSource(d, key))

script_std_entry(d, b) ==
    IF b.key = "parents"
    THEN [file |-> b.file, format |-> "int32",
          count |-> script_std_converted(d, b.key).shape[1], stride |-> PARENT_STRIDE]
    ELSE std_entry(b.file, script_std_converted(d, b.key),
                   F32 * (IF b.key \in QuatKeys THEN 4 ELSE 3))

\* the six blocks: every stream whose key is present is converted, written
\* and described
ScriptStdMaleStreams ==
    /\ pc = "sstd_streams"
    /\ LET d == std_male_model_data
           present == {i \in 1..Len(ScriptStdBlocks) :
                          script_std_present(d, ScriptStdBlocks[i].key)}
           block(name) == ScriptStdBlocks[CHOOSE i \in present :
                              name \in {ScriptStdBlocks[i].key, ScriptStdBlocks[i].entry,
                                        ScriptStdBlocks[i].file}]
       IN  /\ files' = [q \in DOMAIN files
                               \cup {Path(StdMaleDir, ScriptStdBlocks[i].file) : i \in present} |->
                           IF q[1] = StdMaleDir
                              /\ q[2] \in {ScriptStdBlocks[i].file : i \in present}
                           THEN F32 * Prod(script_std_converted(d, block(q[2]).key).shape)
                           ELSE files[q]]
           /\ std_header' = [e \in {ScriptStdBlocks[i].entry : i \in present} |->
                                script_std_entry(d, block(e))]
           /\ std_arrays' = [k \in {ScriptStdBlocks[i].key : i \in present} \ {"parents"} |->
                                script_std_converted(d, k)]
    /\ pc' = "sstd_json"
    /\ UNCHANGED <<err, pdvars, docs, dirs, env, skvars>>

ScriptStdMaleWriteHeader ==
    /\ pc = "sstd_json"
    /\ docs' = WriteFile(docs, Path(StdMaleDir, "header.json"),
                    [stdMaleModel |-> std_header])
    /\ pc' = "done"
    /\ UNCHANGED <<err, pdvars, files, dirs, env, skvars, stdvars>>

\* convert_gs_example.py main
ScriptGsStart ==
    /\ pc = "sgs_start"
    /\ IF "gs" \notin exists
       THEN Raise("FileNotFoundError") /\ UNCHANGED dirs
       ELSE pc' = "sgs_call" /\ err' = err /\ dirs' = dirs \cup {GsDir}
    /\ UNCHANGED <<pdvars, files, docs, env, skvars, stdvars>>

\* process_data(input, output_dir, skeleton_path or None): three positional
\* arguments for the two parameters of process_data, so the call raises
\* TypeError before the body of process_data starts
ScriptGsCall ==
    /\ pc = "sgs_call"
    /\ Raise("TypeError")
    /\ UNCHANGED <<pdvars, files, docs, dirs, env, skvars, stdvars>>

ScriptInit ==
    /\ caller \in Scripts
    /\ pc = CASE caller = "convert_441_skeleton.py" -> "s441_start"
              [] caller = "convert_std_male_model.py" -> "sstd_start"
              [] caller = "convert_gs_example.py" -> "sgs_start"
    /\ err = ""
    /\ exists \in SUBSET {"gs", "skeleton", "std"}
    /\ IF "gs" \in exists /\ caller = "convert_gs_example.py"
       THEN data \in MainArtifacts ELSE data = None
    /\ IF "skeleton" \in exists /\ caller = "convert_441_skeleton.py"
       THEN skeleton_data \in SkeletonInputs ELSE skeleton_data = None
    /\ IF "std" \in exists /\ caller = "convert_std_male_model.py"
       THEN std_male_model_data \in StdMaleInputs ELSE std_male_model_data = None
    /\ dirs \in StaleDirs
    /\ files = [q \in {Path(d, "stale.bin") : d \in dirs} |-> 1]
    /\ docs = [q \in {Path(d, "stale.json") : d \in dirs} |-> Empty]
    /\ means = None /\ covs = None /\ colors = None /\ opacities = None
    /\ weights = None /\ joints = None /\ poses = None
    /\ animation_num_bones = None /\ num_splats = 0
    /\ scales = None /\ rot_mat = None /\ rotations = None
    /\ top_indices = None /\ top_weights = None
    /\ header = None
    /\ bone_names = None /\ parents = None
    /\ sk_header = None /\ std_header = None /\ std_arrays = Empty

ScriptNext ==
    \/ ScriptSkeletonStart
    \/ ScriptSkeletonLoad
    \/ ScriptSkeletonParents
    \/ ScriptSkeletonWriteHeader
    \/ ScriptStdMaleStart
    \/ ScriptStdMaleLoad
    \/ ScriptStdMaleStreams
    \/ ScriptStdMaleWriteHeader
    \/ ScriptGsStart
    \/ ScriptGsCall

ScriptSpec == ScriptInit /\ [][ScriptNext]_vars

\* ------------------------------------------------------ the two decomposers
\* decompose_covariance(cov_matrix), which nothing in the repository calls,
\* and the batch decomposition of process_data, each applied to one
\* covariance diag(d).  `caller` names the decomposer that runs.
VarianceVals == {0, 4, 9, 10000}
DecomposeCovs == {<<a, b, c>> : a \in VarianceVals, b \in VarianceVals, c \in VarianceVals}
                     \cup {NonFiniteCov}

\* try: w, v = np.linalg.eigh(cov_matrix); scales = ...; rot_mat = v
\* On a non-finite matrix eigh raises, which the except clause catches, or
\* returns NaN.
DcEigh ==
    /\ pc = "dc_eigh"
    /\ IF isfinite(covs[1])
       THEN \E s \in EigenSigns :
               /\ scales' = scale_of(eigh_signed(covs[1], s).w)
               /\ rot_mat' = eigh_signed(covs[1], s).v
               /\ pc' = "dc_from_matrix"
       ELSE \/ /\ pc' = "dc_except"
               /\ UNCHANGED <<scales, rot_mat>>
            \/ /\ scales' = nan_like(3)
               /\ rot_mat' = nan_like(9)
               /\ pc' = "dc_from_matrix"
    /\ UNCHANGED <<err, data, means, covs, colors, opacities, weights, joints, poses,
                   animation_num_bones, num_splats, rotations, top_indices, top_weights,
                   header, files, docs, dirs, rest>>

\* r = Rotation.from_matrix(rot_mat); quat = r.as_quat(); return scales, quat
\* A matrix of determinant -1 is not a rotation: from_matrix either fits a
\* quaternion to it all the same, or rejects it with ValueError, which the
\* except clause catches.
DcFromMatrix ==
    /\ pc = "dc_from_matrix"
    /\ \/ /\ rotations' = NdArray(<<4>>, IF isfinite(rot_mat) THEN from_matrix(rot_mat)
                                          ELSE nan_like(4))
          /\ pc' = "done"
       \/ /\ isfinite(rot_mat) /\ det(rot_mat) <= 0
          /\ pc' = "dc_except"
          /\ UNCHANGED rotations
    /\ UNCHANGED <<err, data, means, covs, colors, opacities, weights, joints, poses,
                   animation_num_bones, num_splats, scales, rot_mat, top_indices,
                   top_weights, header, files, docs, dirs, rest>>

\* except Exception: return np.array([0.01, 0.01, 0.01]), np.array([0, 0, 0, 1])
DcExcept ==
    /\ pc = "dc_except"
    /\ scales' = [k \in 1..3 |-> FALLBACK_SCALE]
    /\ rotations' = NdArray(<<4>>, <<0, 0, 0, 1>>)
    /\ pc' = "done"
    /\ UNCHANGED <<err, data, means, covs, colors, opacities, weights, joints, poses,
                   animation_num_bones, num_splats, rot_mat, top_indices, top_weights,
                   header, files, docs, dirs, rest>>

DecomposeInit ==
    /\ caller \in {"decompose_covariance", "process_data"}
    /\ pc = IF caller = "decompose_covariance" THEN "dc_eigh" ELSE "pd_decompose"
    /\ covs \in {<<d>> : d \in DecomposeCovs}
    /\ err = ""
    /\ data = None
    /\ means = None /\ colors = None /\ opacities = None
    /\ weights = None /\ joints = None /\ poses = None
    /\ animation_num_bones = None /\ num_splats = 1
    /\ scales = None /\ rot_mat = None /\ rotations = None
    /\ top_indices = None /\ top_weights = None
    /\ header = None
    /\ files = Empty /\ docs = Empty /\ dirs = {}
    /\ exists = {}
    /\ skeleton_data = None /\ std_male_model_data = None
    /\ bone_names = None /\ parents = None
    /\ sk_header = None /\ std_header = None /\ std_arrays = Empty

DecomposeNext ==
    \/ DcEigh
    \/ DcFromMatrix
    \/ DcExcept
    \/ Decompose

DecomposeSpec == DecomposeInit /\ [][DecomposeNext]_vars

\* ================================================================= claims
\* the header document process_data wrote, and what it wrote beside it
GsHeaderWritten == Path(GsDir, "pkl_header.json") \in DOMAIN docs
GsHeader == docs[Path(GsDir, "pkl_header.json")]
GsFile(name) == Path(GsDir, name)
Written(path) == path \in DOMAIN files

\* a completed run of process_data
GsDone == pc = "done" /\ data /= None

\* the source records the opacity filter keeps, and the k-th of them
Kept == {i \in 1..Len(data.opacity) : data.opacity[i] >= OPACITY_THRESHOLD}
KeptIndex(k) == CHOOSE i \in Kept : Cardinality({j \in Kept : j < i}) = k - 1

\* C1: right after the opacity filter, the retained records are exactly the
\* source records with opacity >= 0.1, in their original order, and index k
\* of the filtered position, covariance, colour, opacity and skinning-weight
\* arrays all hold the fields of the same source record.
C1_FilterRetainsExactly ==
    pc = "pd_poses" =>
        /\ Len(opacities) = Cardinality(Kept)
        /\ means.shape = <<Cardinality(Kept), 3>>
        /\ weights.shape = <<Cardinality(Kept), data.W.shape[2]>>
        /\ Len(covs) = Cardinality(Kept)
        /\ Len(colors) = Cardinality(Kept)
        /\ \A k \in 1..Len(opacities) :
              /\ opacities[k] >= OPACITY_THRESHOLD
              /\ opacities[k] = data.opacity[KeptIndex(k)]
              /\ Row(means, k) = Row(data.mu, KeptIndex(k))
              /\ covs[k] = data.cov[KeptIndex(k)]
              /\ colors[k] = data.color[KeptIndex(k)]
              /\ Row(weights, k) = Row(data.W, KeptIndex(k))

\* a batch whose first record is dropped and whose second, at exactly the
\* threshold, is kept
C1_Witness ==
    /\ pc = "pd_poses"
    /\ Len(data.opacity) = 2
    /\ data.opacity[1] < OPACITY_THRESHOLD
    /\ data.opacity[2] = OPACITY_THRESHOLD
    /\ Len(opacities) = 1

\* the states in which the reduced skinning weights have been computed
WeightsReduced == pc = "pd_header"

\* C2: every retained splat gets exactly 4 (bone index, weight) pairs, for
\* every bone count B >= 1.
C2_FourPairs ==
    WeightsReduced =>
        \A i \in 1..Len(top_indices) :
            Len(top_indices[i]) = TOP_K /\ Len(top_weights[i]) = TOP_K

\* the weights of row i selected by the reduction, in the order emitted
Selected(i) == [k \in 1..Len(top_indices[i]) |-> top_weights[i][k].num]

IndexOfWeight(i) ==
    \A k \in 1..Len(top_indices[i]) :
        /\ top_indices[i][k] \in 0..(weights.shape[2] - 1)
        /\ Selected(i)[k] = Row(weights, i)[top_indices[i][k] + 1]
        /\ \A l \in 1..Len(top_indices[i]) : l /= k => top_indices[i][l] /= top_indices[i][k]

Unselected(i) ==
    {j \in 1..weights.shape[2] : \A k \in 1..Len(top_indices[i]) : top_indices[i][k] /= j - 1}

\* C3 as stated: with B >= 4 the reduction emits the 4 weights of highest
\* magnitude, largest first, and the k-th emitted index is the column the
\* k-th emitted weight came from.
C3_Original ==
    (WeightsReduced /\ weights.shape[2] >= TOP_K) =>
        \A i \in 1..Len(top_indices) :
            /\ Len(top_indices[i]) = TOP_K
            /\ IndexOfWeight(i)
            /\ \A k \in 1..(TOP_K - 1) : Selected(i)[k] >= Selected(i)[k + 1]
            /\ \A j \in Unselected(i) : \A k \in 1..TOP_K :
                  Abs(Row(weights, i)[j]) <= Abs(Selected(i)[k])

\* C3 amended: with B >= 4 the reduction emits the 4 weights of highest
\* signed value, in ascending order (largest last), and the k-th emitted
\* index is the column the k-th emitted weight came from.
C3_TopFourAscending ==
    (WeightsReduced /\ weights.shape[2] >= TOP_K) =>
        \A i \in 1..Len(top_indices) :
            /\ Len(top_indices[i]) = TOP_K
            /\ IndexOfWeight(i)
            /\ \A k \in 1..(TOP_K - 1) : Selected(i)[k] <= Selected(i)[k + 1]
            /\ \A j \in Unselected(i) : \A k \in 1..TOP_K :
                  Row(weights, i)[j] <= Selected(i)[k]

\* more than 4 bones, a column left out, and a row whose emitted weights
\* strictly increase
C3_Witness ==
    /\ WeightsReduced
    /\ weights.shape[2] > TOP_K
    /\ \E i \in 1..Len(top_indices) :
          /\ Unselected(i) /= {}
          /\ Selected(i)[1] < Selected(i)[TOP_K]

\* |sum of the reduced weights of a row - 1| <= 1e-5 on the exact fractions:
\* |den - sum of num| <= |den| / 100000, the left side being an integer
SumWithinTolerance(row) ==
    /\ \A k \in 1..Len(row) : row[k].den = row[1].den
    /\ row[1].den /= 0
    /\ Abs(row[1].den - SumSeq([k \in 1..Len(row) |-> row[k].num]))
           <= Abs(row[1].den) \div 100000

\* C4 as stated: every row with a non-zero weight has reduced weights that
\* sum to 1 within 1e-5.
C4_Original ==
    WeightsReduced =>
        \A i \in 1..Len(top_weights) :
            (\E j \in 1..weights.shape[2] : Row(weights, i)[j] /= 0)
                => SumWithinTolerance(top_weights[i])

\* C4 amended: every row whose selected weights sum to S with
\* |S + 1e-8| >= 1e-3 has reduced weights that sum to 1 within 1e-5.
C4_SumNearOne ==
    WeightsReduced =>
        \A i \in 1..Len(top_weights) :
            Abs(SumSeq(take_along_axis(weights, top_indices)[i]) + EPS) >= 100000
                => SumWithinTolerance(top_weights[i])

\* two rows, the first with selected weights summing to at least 1e-3
C4_Witness ==
    /\ WeightsReduced
    /\ Len(top_weights) = 2
    /\ SumSeq(take_along_axis(weights, top_indices)[1]) >= 100000
    /\ SumWithinTolerance(top_weights[1])

\* the conversion convert_std_male_model applies to the array under a key
Conversion(key, a) == IF key \in QuatKeys THEN cv_to_gl_quat(a) ELSE cv_to_gl(a)

\* C5: an array of 3-vectors or of (x, y, z, w) quaternions of rank 1, 2 or
\* 3 keeps its shape under the coordinate conversion, components 1 and 2 of
\* the last axis are negated, the others are unchanged, and converting the
\* result again gives back the source array.
C5_ConversionInvolution ==
    \A key \in DOMAIN std_arrays :
        LET src == StdSource(std_male_model_data, key)
            out == std_arrays[key]
            last == src.shape[ndim(src)]
        IN  ndim(src) \in {1, 2, 3} =>
                /\ out.shape = src.shape
                /\ Len(out.data) = Len(src.data)
                /\ \A k \in 1..Len(src.data) :
                      out.data[k] = IF (k - 1) % last \in {1, 2} THEN 0 - src.data[k]
                                    ELSE src.data[k]
                /\ Conversion(key, out) = src

\* a run that converted vectors and quaternions given as single elements
\* (rank 1)
C5_Witness ==
    /\ pc = "std_json"
    /\ {"rest_translations", "rest_rotations", "verts"} \subseteq DOMAIN std_arrays
    /\ std_male_model_data.rank = 1
    /\ std_arrays["rest_rotations"].data[2] /= 0
    /\ std_arrays["rest_rotations"].data[4] /= 0

\* element e (from 0) of the packed values of frame f, bone b
Packed(f, b, e) == poses.data[((f - 1) * poses.shape[2] + (b - 1)) * 16 + e + 1]

\* component c (from 0) of the source rotation and translation of (f, b)
SrcRot(f, b, c) ==
    data.poses.rotations.data[((f - 1) * data.poses.rotations.shape[2] + (b - 1)) * 4 + c + 1]
SrcTrans(f, b, c) ==
    data.poses.translations.data[((f - 1) * data.poses.translations.shape[2] + (b - 1)) * 3 + c + 1]

\* the rotation matrix of the converted quaternion of (f, b), row-major
ConvertedRotation(f, b) ==
    as_matrix(<<SrcRot(f, b, 0), 0 - SrcRot(f, b, 1), 0 - SrcRot(f, b, 2), SrcRot(f, b, 3)>>)

\* C6: the animation packed from a {rotations, translations} pair has shape
\* F x Bn x 16, frame outer and bone inner, and the 16 values of (f, b) are
\* the column-major 4x4 transform of that pair after conversion:
\* translation at 12..14, zeros at 3, 7, 11, one at 15, rotation element
\* (r, c) at 4*c + r.
C6_AnimationPacking ==
    (pc = "pd_convert" /\ data.poses.kind = "dict") =>
        /\ poses.shape = <<data.poses.rotations.shape[1], data.poses.rotations.shape[2], 16>>
        /\ Len(poses.data) = Prod(poses.shape)
        /\ \A f \in 1..poses.shape[1] : \A b \in 1..poses.shape[2] :
              /\ Packed(f, b, 12) = SrcTrans(f, b, 0)
              /\ Packed(f, b, 13) = 0 - SrcTrans(f, b, 1)
              /\ Packed(f, b, 14) = 0 - SrcTrans(f, b, 2)
              /\ Packed(f, b, 3) = 0 /\ Packed(f, b, 7) = 0 /\ Packed(f, b, 11) = 0
              /\ Packed(f, b, 15) = 1
              /\ \A r \in 0..2 : \A c \in 0..2 :
                    Packed(f, b, 4 * c + r) = ConvertedRotation(f, b)[3 * r + c + 1]

\* a stream of several frames and several bones with an asymmetric rotation
C6_Witness ==
    /\ pc = "pd_convert"
    /\ data.poses.kind = "dict"
    /\ poses.shape[1] >= 2 /\ poses.shape[2] >= 2
    /\ \E f \in 1..poses.shape[1] : \E b \in 1..poses.shape[2] :
          Packed(f, b, 1) /= Packed(f, b, 4)

\* C7: after a completed conversion splats.bin holds numSplats*48 bytes,
\* weights.bin numSplats*24 bytes, and animation.bin, when emitted,
\* numFrames*numBones*64 bytes, with the values of the header.
C7_FileSizes ==
    GsDone =>
        /\ files[GsFile("splats.bin")] = GsHeader.numSplats * 48
        /\ files[GsFile("weights.bin")] = GsHeader.numSplats * 24
        /\ Written(GsFile("animation.bin")) =>
              /\ GsHeader.animation.numBones /= None
              /\ files[GsFile("animation.bin")] =
                     GsHeader.animation.numFrames * GsHeader.animation.numBones.some
                         * ANIM_STRIDE

\* the converted positions of the retained records
KeptConverted == [k \in 1..Cardinality(Kept) |->
    LET q == Row(data.mu, KeptIndex(k)) IN <<q[1], 0 - q[2], 0 - q[3]>>]

\* C8: for every batch with the mandatory keys, process_data writes a header
\* whose numSplats is the number of retained records and whose bounds are
\* the component-wise minimum and maximum of the retained, converted
\* positions.
C8_HeaderAggregates ==
    (pc \in {"done", "raised"} /\ data /= None /\ MandatoryKeys \subseteq data.keys) =>
        /\ GsHeaderWritten
        /\ GsHeader.numSplats = Cardinality(Kept)
        /\ \A c \in 1..3 :
              /\ \A k \in 1..Cardinality(Kept) :
                    GsHeader.bounds.min[c] <= KeptConverted[k][c]
                        /\ KeptConverted[k][c] <= GsHeader.bounds.max[c]
              /\ \E k \in 1..Cardinality(Kept) : GsHeader.bounds.min[c] = KeptConverted[k][c]
              /\ \E k \in 1..Cardinality(Kept) : GsHeader.bounds.max[c] = KeptConverted[k][c]

\* the keys under which a header describes a stream
StreamKeys == {"splats", "weights", "animation", "joints", "parents"}

\* doc has a descriptor {file, format, count|shape, stride} of the stream
Described(doc, name) ==
    \E k \in DOMAIN doc \cap StreamKeys :
        /\ doc[k].file = name
        /\ {"format", "stride"} \subseteq DOMAIN doc[k]
        /\ {"count", "shape"} \cap DOMAIN doc[k] /= {}

SkeletonDone == pc = "done" /\ Path(SkeletonDir, "skeleton_header.json") \in DOMAIN docs
SkeletonHeader == docs[Path(SkeletonDir, "skeleton_header.json")]

OptionalStreams == {"animation.bin", "joints.bin", "parents.bin"}

C10_OptionalStreams ==
    /\ (pc \in {"done", "raised"} /\ "gs" \in exists /\ MandatoryKeys \subseteq data.keys) =>
          /\ GsHeaderWritten
          /\ Written(GsFile("joints.bin")) <=> "joints" \in data.keys
          /\ "joints" \in DOMAIN GsHeader <=> "joints" \in data.keys
          /\ Written(GsFile("animation.bin")) <=> data.poses.kind /= "none"
          /\ "animation" \in DOMAIN GsHeader <=> data.poses.kind /= "none"
    /\ SkeletonDone =>
          /\ Written(Path(SkeletonDir, "parents.bin"))
                <=> skeleton_data.keys \cap ParentKeys /= {}
          /\ "parents" \in DOMAIN SkeletonHeader
                <=> skeleton_data.keys \cap ParentKeys /= {}

\* a run of main that has ended: by returning, or by an exception leaving it
Ended == pc \in {"done", "raised"}
StdMaleHeaderWritten == Path(StdMaleDir, "std_male_header.json") \in DOMAIN docs
SkeletonHeaderWritten == Path(SkeletonDir, "skeleton_header.json") \in DOMAIN docs

\* C11: in a run of main the assets are isolated: when the conversion of one
\* asset fails with an error or its input is missing, the conversions of the
\* other assets are still attempted and run to their own outcome, so a run
\* that has ended has converted every skeleton and base model whose input
\* file exists.
C11_AssetsIsolated ==
    Ended =>
        /\ "skeleton" \in exists => SkeletonHeaderWritten
        /\ "std" \in exists => StdMaleHeaderWritten

\* the files and documents present in an output directory
InDir(dir) == {q \in DOMAIN files \cup DOMAIN docs : q[1] = dir}
MissingMandatoryKey == data /= None /\ ~(MandatoryKeys \subseteq data.keys)

\* C12: when a mandatory key ('mu', 'cov', 'color', 'opacity' or 'W') is
\* absent from the loaded artifact, process_data gets no further than the
\* reading of its arrays, fails there with an error that reaches its caller,
\* and has created or written no output file of the asset.
C12_MissingKeyNoOutput ==
    MissingMandatoryKey =>
        /\ pc \in {"pd_read", "raised"}
        /\ pc = "raised" => err = "KeyError"
        /\ InDir(GsDir) = {}

\* a call that failed on an artifact without 'W'
C12_Witness ==
    /\ pc = "raised"
    /\ err = "KeyError"
    /\ data /= None
    /\ "W" \notin data.keys
    /\ {"mu", "cov", "color", "opacity"} \subseteq data.keys
    /\ InDir(GsDir) = {}

\* the files an output directory held before the run
Stale(dir) == {Path(dir, "stale.bin"), Path(dir, "stale.json")}
\* the conversion of the asset has written output into its directory
WroteOutput(dir) == InDir(dir) \ Stale(dir) /= {}

\* C13: in every run, for every asset whose conversion writes output, no
\* file that was in its output directory before the run remains after the
\* run: the directory is cleared before the converter writes its first file.
C13_OutputDirCleared ==
    Ended =>
        \A dir \in {GsDir, SkeletonDir, StdMaleDir} :
            WroteOutput(dir) => InDir(dir) \cap Stale(dir) = {}

\* the states of process_data after the decomposition of the batch
Decomposed ==
    pc \in {"pd_colors", "pd_weights", "pd_header", "pd_splats", "pd_wfile",
            "pd_animation", "pd_joints", "pd_json", "done"}
\* the artifact has a retained record whose covariance is not finite
NonFiniteKept ==
    /\ data /= None
    /\ MandatoryKeys \subseteq data.keys
    /\ \E i \in Kept : ~isfinite(data.cov[i])
\* the fallback of a record whose decomposition fails: the default scale of
\* decompose_covariance (0.01) or the unit scale, and the identity quaternion
FallbackScales == {[k \in 1..3 |-> FALLBACK_SCALE], [k \in 1..3 |-> 100 * FALLBACK_SCALE]}
IdentityQuat == <<0, 0, 0, 1>>

\* C14: when the covariance of one record is not finite, the decomposition
\* of the batch in process_data does not fail: no error of the decomposition
\* propagates, that record gets the default scale and the identity
\* quaternion (0,0,0,1), and every other record is decomposed normally.
C14_NonFiniteFallback ==
    NonFiniteKept =>
        /\ err /= "LinAlgError"
        /\ (Decomposed /\ data /= None) =>
              \A k \in 1..Len(covs) :
                  IF isfinite(covs[k])
                  THEN scales[k] = scale_of(eigh(covs[k]).w) /\ isfinite(Row(rotations, k))
                  ELSE scales[k] \in FallbackScales /\ Row(rotations, k) = IdentityQuat

PositiveScale(sc) == \A k \in 1..3 : sc[k] > 0

\* C15: for every valid symmetric PSD covariance the matrix handed to the
\* quaternion conversion is a proper rotation, of determinant +1, both in
\* decompose_covariance and in the batch decomposition of process_data, and
\* both return the scale sqrt(max(eigenvalue, 1e-8)) > 0.
C15_ProperRotation ==
    /\ (caller = "process_data" /\ pc = "pd_colors") =>
          \A k \in 1..Len(covs) :
              isfinite(covs[k]) =>
                  /\ det(rot_mat[k]) = 1
                  /\ scales[k] = scale_of(eigh(covs[k]).w)
                  /\ PositiveScale(scales[k])
    /\ (caller = "decompose_covariance" /\ pc = "done" /\ isfinite(covs[1])) =>
          /\ det(rot_mat) = 1
          /\ scales = scale_of(eigh(covs[1]).w)
          /\ PositiveScale(scales)

\* process_data is called on a readable artifact that has the five mandatory
\* keys and a record of opacity >= 0.1
Convertible ==
    /\ "gs" \in exists
    /\ data /= None
    /\ MandatoryKeys \subseteq data.keys
    /\ Kept /= {}

\* C16: a call of process_data on a readable artifact with the five
\* mandatory keys and at least one record of opacity >= 0.1 completes: the
\* run does not end before splats.bin, weights.bin and pkl_header.json are
\* written.
C16_ConversionCompletes ==
    (Ended /\ Convertible) =>
        /\ Written(GsFile("splats.bin"))
        /\ Written(GsFile("weights.bin"))
        /\ GsHeaderWritten


============================================================================
